---- MODULE Spec2Model ----
(***************************************************************************)
(* Model of arize_otel/_register.py: register_otel assembles a tracer      *)
(* provider (one span processor per endpoint, optional console mirror),    *)
(* writes the OTLP headers environment variable and registers the         *)
(* provider process-wide.                                                  *)
(*                                                                         *)
(* Python values are records [type, val] so that None, "", str, bool, int  *)
(* and members of the str-valued Endpoints enum stay distinguishable.      *)
(***************************************************************************)
EXTENDS Naturals, Sequences, FiniteSets, TLC

VARIABLES environ, tracer_provider, call, outcome, events, ncalls

vars == <<environ, tracer_provider, call, outcome, events, ncalls>>

(* ------------------------------ bounds -------------------------------- *)

\* longest endpoint list passed to register_otel
MaxEndpoints == 2

\* number of register_otel calls in one run of the process
MaxCalls == 2

(* --------------------------- Python values ---------------------------- *)

None == [type |-> "NoneType", val |-> "None"]

Str(s) == [type |-> "str", val |-> s]

True == [type |-> "bool", val |-> "True"]

False == [type |-> "bool", val |-> "False"]

Int(s) == [type |-> "int", val |-> s]

List(items) == [type |-> "list", items |-> items]

\* bool(v) / `not v`
Truthy(v) ==
  CASE v.type = "NoneType" -> FALSE
    [] v.type = "bool" -> v.val = "True"
    [] v.type = "int" -> v.val # "0"
    [] v.type = "list" -> v.items # <<>>
    [] OTHER -> v.val # ""

\* f"{v}" for the values set_auth_keys receives
PyFormat(v) == IF v.type = "NoneType" THEN "None" ELSE v.val

\* variant: the flag check accepts any int (isinstance(v, int))
isinstance_bool_int(v) == v.type \in {"bool", "int"}

\* isinstance(v, bool): an int is not a bool
isinstance_bool(v) == v.type = "bool"

isinstance_list(v) == v.type = "list"

isinstance_Endpoints(v) == v.type = "Endpoints"

(* ------------------------- class Endpoints ---------------------------- *)

ARIZE == [type |-> "Endpoints", val |-> "https://otlp.arize.com/v1"]

PHOENIX_LOCAL == [type |-> "Endpoints", val |-> "http://localhost:4317/v1/traces"]

HOSTED_PHOENIX == [type |-> "Endpoints", val |-> "https://app.phoenix.arize.com/v1/traces"]

Endpoints == {ARIZE, PHOENIX_LOCAL, HOSTED_PHOENIX}

\* a == b : Endpoints mixes in str, so a member equals the str of its value
PyEq(a, b) ==
  IF a.type \in {"str", "Endpoints"} /\ b.type \in {"str", "Endpoints"}
  THEN a.val = b.val
  ELSE a = b

\* member in lst  (lst a sequence)
Contains(lst, member) == \E i \in 1..Len(lst) : PyEq(lst[i], member)

(* --------------------------- helper functions ------------------------- *)

NoError == [kind |-> "returned", msg |-> ""]

ValueError(msg) == [kind |-> "ValueError", msg |-> msg]

TypeError(msg) == [kind |-> "TypeError", msg |-> msg]

\* variant: only the enum member itself selects HTTP (`endpoint is ...`)
should_use_http_identity(endpoint) == endpoint = HOSTED_PHOENIX

should_use_http(endpoint) == PyEq(endpoint, HOSTED_PHOENIX)

\* variant: the model_id check is left out
validate_for_arize_no_model_id(space_key, api_key, model_id) ==
  IF ~Truthy(space_key) THEN ValueError("Missing 'space_key' to log traces into Arize")
  ELSE IF ~Truthy(api_key) THEN ValueError("Missing 'api_key' to log traces into Arize")
  ELSE NoError

validate_for_arize(space_key, api_key, model_id) ==
  IF ~Truthy(space_key) THEN ValueError("Missing 'space_key' to log traces into Arize")
  ELSE IF ~Truthy(api_key) THEN ValueError("Missing 'api_key' to log traces into Arize")
  ELSE IF ~Truthy(model_id) THEN ValueError("Missing 'model_id' to log traces into Arize")
  ELSE NoError

\* variant: tests `api_key is None` instead of `not api_key`
validate_for_hosted_phoenix_none_only(api_key) ==
  IF api_key.type = "NoneType"
  THEN ValueError("Missing 'api_key' to log traces into Hosted Phoenix")
  ELSE NoError

validate_for_hosted_phoenix(api_key) ==
  IF ~Truthy(api_key)
  THEN ValueError("Missing 'api_key' to log traces into Hosted Phoenix")
  ELSE NoError

\* ResourceAttributes.PROJECT_NAME
PROJECT_NAME == "openinference.project.name"

Attr(k, v) == [key |-> k, value |-> v]

create_resource(model_id, model_version, project_name) ==
  (IF Truthy(model_id) THEN {Attr("model_id", model_id.val)} ELSE {})
    \cup (IF Truthy(model_version) THEN {Attr("model_version", model_version.val)} ELSE {})
    \cup (IF Truthy(project_name) THEN {Attr(PROJECT_NAME, project_name.val)} ELSE {})

\* the string stored under OTEL_EXPORTER_OTLP_TRACES_HEADERS
set_auth_keys(space_key, api_key) ==
  "space_key=" \o PyFormat(space_key) \o ",api_key=" \o PyFormat(api_key)

(* ----------------------- objects built by a call ---------------------- *)

\* os.environ.get("OTEL_EXPORTER_OTLP_TRACES_HEADERS")
EnvUnset == [set |-> FALSE, value |-> ""]

EnvSet(v) == [set |-> TRUE, value |-> v]

\* the default provider of the registry before any set_tracer_provider
NoProvider == [id |-> 0, resource |-> {}, processors |-> <<>>]

\* variant: the new provider starts from the registered provider's processors
TracerProvider_reuse(id, resource) ==
  [id |-> id, resource |-> resource, processors |-> tracer_provider.processors]

\* TracerProvider(resource=...) : a fresh object, no processors; id numbers
\* the provider objects of the process in order of creation
TracerProvider(id, resource) == [id |-> id, resource |-> resource, processors |-> <<>>]

\* GrpcSpanExporter(endpoint=ep) / HttpSpanExporter(endpoint=ep); the
\* exporter takes its headers from the environment as it is when built
OTLPSpanExporter(cls, ep, env) == [cls |-> cls, endpoint |-> ep, headers_env |-> env]

ConsoleSpanExporter == [cls |-> "ConsoleSpanExporter"]

\* processor(span_exporter=exporter)
SpanProcessor(cls, exporter) == [cls |-> cls, exporter |-> exporter]

(* ------------------- register_otel, statement by statement ------------ *)
(* m is the interpreter state of one call: the environment variable, the  *)
(* local provider object, whether it has been handed to the registry, the *)
(* exception raised (if any) and the log of effects in execution order.   *)

Enter(env, id) ==
  [environ |-> env, provider |-> NoProvider, id |-> id, registered |-> FALSE,
   raised |-> NoError, events |-> <<>>]

Raise(m, err) == [m EXCEPT !.raised = err]

\* lines 80-81
CheckBatchFlag(m, cfg) ==
  IF ~isinstance_bool(cfg.use_batch_processor)
  THEN Raise(m, TypeError("use_batch_processor must be of type bool"))
  ELSE m

\* lines 83-84
Normalize(endpoints) ==
  IF ~isinstance_list(endpoints) THEN <<endpoints>> ELSE endpoints.items

\* variant: the Arize validation runs for every endpoint list
CheckArize_always(m, cfg, endpoints) ==
  Raise(m, validate_for_arize(cfg.space_key, cfg.api_key, cfg.model_id))

\* lines 86-87
CheckArize(m, cfg, endpoints) ==
  IF Contains(endpoints, ARIZE)
  THEN Raise(m, validate_for_arize(cfg.space_key, cfg.api_key, cfg.model_id))
  ELSE m

\* lines 89-90
CheckHostedPhoenix(m, cfg, endpoints) ==
  IF Contains(endpoints, HOSTED_PHOENIX)
  THEN Raise(m, validate_for_hosted_phoenix(cfg.api_key))
  ELSE m

\* line 92
SetAuthKeys(m, cfg) ==
  [m EXCEPT !.environ = EnvSet(set_auth_keys(cfg.space_key, cfg.api_key)),
            !.events = Append(@, "set_auth_keys")]

\* lines 94-100
CreateProvider(m, cfg) ==
  [m EXCEPT !.provider = TracerProvider(m.id,
                create_resource(cfg.model_id, cfg.model_version, cfg.project_name)),
            !.events = @ \o <<"Resource", "TracerProvider">>]

\* line 102
ProcessorClass(cfg) ==
  IF Truthy(cfg.use_batch_processor) THEN "BatchSpanProcessor" ELSE "SimpleSpanProcessor"

\* lines 106-112, one iteration of the loop
AddEndpointProcessor(m, endpoint, processor) ==
  LET exporter == IF should_use_http(endpoint) THEN "HttpSpanExporter" ELSE "GrpcSpanExporter"
      ep == IF isinstance_Endpoints(endpoint) THEN endpoint.val ELSE PyFormat(endpoint)
  IN [m EXCEPT !.provider.processors =
                   Append(@, SpanProcessor(processor, OTLPSpanExporter(exporter, ep, m.environ))),
               !.events = @ \o <<exporter, processor, "add_span_processor">>]

RECURSIVE AddEndpointProcessors(_, _, _)
\* lines 104-112
AddEndpointProcessors(m, endpoints, processor) ==
  IF endpoints = <<>> THEN m
  ELSE AddEndpointProcessors(AddEndpointProcessor(m, Head(endpoints), processor),
                             Tail(endpoints), processor)

\* variant: the console mirror is always an immediate processor
AddConsoleProcessor_simple(m, cfg, processor) ==
  IF Truthy(cfg.log_to_console)
  THEN [m EXCEPT !.provider.processors =
                     Append(@, SpanProcessor("SimpleSpanProcessor", ConsoleSpanExporter)),
                 !.events = @ \o <<"ConsoleSpanExporter", "SimpleSpanProcessor", "add_span_processor">>]
  ELSE m

\* lines 114-119
AddConsoleProcessor(m, cfg, processor) ==
  IF Truthy(cfg.log_to_console)
  THEN [m EXCEPT !.provider.processors = Append(@, SpanProcessor(processor, ConsoleSpanExporter)),
                 !.events = @ \o <<"ConsoleSpanExporter", processor, "add_span_processor">>]
  ELSE m

\* line 121
SetTracerProvider(m) ==
  [m EXCEPT !.registered = TRUE, !.events = Append(@, "set_tracer_provider")]

\* variant: set_auth_keys is called after the exporters are built
Assemble_auth_last(m, cfg, endpoints) ==
  LET m2 == CreateProvider(m, cfg)
      m3 == AddEndpointProcessors(m2, endpoints, ProcessorClass(cfg))
      m4 == AddConsoleProcessor(m3, cfg, ProcessorClass(cfg))
  IN SetTracerProvider(SetAuthKeys(m4, cfg))

\* lines 92-121: the statements after validation, in program order
Assemble(m, cfg, endpoints) ==
  LET m1 == SetAuthKeys(m, cfg)
      m2 == CreateProvider(m1, cfg)
      m3 == AddEndpointProcessors(m2, endpoints, ProcessorClass(cfg))
      m4 == AddConsoleProcessor(m3, cfg, ProcessorClass(cfg))
  IN SetTracerProvider(m4)

\* variant: set_auth_keys is called before the endpoint validation
Body_auth_first(m, cfg) ==
  LET m1 == CheckBatchFlag(m, cfg)
      endpoints == Normalize(cfg.endpoints)
      m2 == CheckArize(SetAuthKeys(m1, cfg), cfg, endpoints)
      m3 == CheckHostedPhoenix(m2, cfg, endpoints)
  IN IF m1.raised # NoError THEN m1
     ELSE IF m2.raised # NoError THEN m2
     ELSE IF m3.raised # NoError THEN m3
     ELSE Assemble(m3, cfg, endpoints)

\* lines 80-121: the body of register_otel; a raise ends the call
Body(m, cfg) ==
  LET m1 == CheckBatchFlag(m, cfg)
      endpoints == Normalize(cfg.endpoints)
      m2 == CheckArize(m1, cfg, endpoints)
      m3 == CheckHostedPhoenix(m2, cfg, endpoints)
  IN IF m1.raised # NoError THEN m1
     ELSE IF m2.raised # NoError THEN m2
     ELSE IF m3.raised # NoError THEN m3
     ELSE Assemble(m3, cfg, endpoints)

(* ------------------------------ inputs -------------------------------- *)

ArizeUrl == Str("https://otlp.arize.com/v1")

HostedPhoenixUrl == Str("https://app.phoenix.arize.com/v1/traces")

CollectorUrl == Str("http://collector:4317")

\* enum members, plain strings spelling a member's URL, and a custom URL
EndpointValues == Endpoints \cup {ArizeUrl, HostedPhoenixUrl, CollectorUrl}

EndpointLists == UNION {[1..n -> EndpointValues] : n \in 0..MaxEndpoints}

EndpointArgs == EndpointValues \cup {List(l) : l \in EndpointLists}

\* absent, empty and non-empty
KeyValues(k) == {None, Str(""), Str(k)}

OptValues(k) == {None, Str(k)}

FlagValues == {True, False, Int("0"), Int("1"), None, Str("yes")}

\* a call that raises at line 81 reads nothing else, so the arguments used
\* only after validation stay at their defaults in those calls
Configs ==
  [endpoints : EndpointArgs,
   api_key : KeyValues("ak"), space_key : KeyValues("sk"), model_id : KeyValues("m1"),
   model_version : OptValues("v2"), project_name : OptValues("p1"),
   log_to_console : {True, False},
   use_batch_processor : {True, False}]
  \cup
  [endpoints : EndpointArgs,
   api_key : KeyValues("ak"), space_key : KeyValues("sk"), model_id : KeyValues("m1"),
   model_version : {None}, project_name : {None},
   log_to_console : {False},
   use_batch_processor : FlagValues \ {True, False}]

Config(e, ak, sk, mid, mv, pn, ltc, ubp) ==
  [endpoints |-> e, api_key |-> ak, space_key |-> sk, model_id |-> mid,
   model_version |-> mv, project_name |-> pn, log_to_console |-> ltc,
   use_batch_processor |-> ubp]

\* the calls made before the last one: each kind of outcome once (two that
\* succeed with different keys, resources and processors, one ValueError,
\* one TypeError); the last call ranges over all of Configs
EarlierConfigs ==
  {Config(ARIZE, Str("ak"), Str("sk"), Str("m1"), Str("v2"), None, False, False),
   Config(List(<<CollectorUrl>>), None, None, None, None, None, True, True),
   Config(List(<<HOSTED_PHOENIX>>), None, None, None, None, None, False, False),
   Config(CollectorUrl, None, None, None, None, None, False, Int("1"))}

Inputs(n) == IF n + 1 < MaxCalls THEN EarlierConfigs ELSE Configs

(* --------------------------- state machine ---------------------------- *)

NoCall == Config(List(<<>>), None, None, None, None, None, False, False)

Init ==
  /\ environ = EnvUnset
  /\ tracer_provider = NoProvider
  /\ call = NoCall
  /\ outcome = [kind |-> "none", msg |-> ""]
  /\ events = <<>>
  /\ ncalls = 0

\* one call of register_otel(**cfg)
register_otel(cfg) ==
  /\ LET m == Body(Enter(environ, tracer_provider.id + 1), cfg)
     IN /\ environ' = m.environ
        /\ tracer_provider' = IF m.registered THEN m.provider ELSE tracer_provider
        /\ outcome' = m.raised
        /\ events' = m.events
  /\ call' = cfg
  /\ ncalls' = ncalls + 1

\* the process stops calling after MaxCalls calls
Next ==
  /\ ncalls < MaxCalls
  /\ \E cfg \in Inputs(ncalls) : register_otel(cfg)

Spec == Init /\ [][Next]_vars

(* ----------------------------- properties ----------------------------- *)

\* a step of the run is one call
CallStep == ncalls' = ncalls + 1

\* the key is empty or absent
Absent(v) == v = None \/ v = Str("")

\* the endpoint list register_otel works on
EndpointList(c) == IF c.endpoints.type = "list" THEN c.endpoints.items ELSE <<c.endpoints>>

HasEndpoint(c, e) == \E i \in 1..Len(EndpointList(c)) : PyEq(EndpointList(c)[i], e)

BoolFlag(c) == c.use_batch_processor \in {True, False}

Constructors ==
  {"Resource", "TracerProvider", "GrpcSpanExporter", "HttpSpanExporter",
   "ConsoleSpanExporter", "BatchSpanProcessor", "SimpleSpanProcessor"}

NothingConstructed(ev) == \A i \in 1..Len(ev) : ev[i] \notin Constructors

\* the first of space_key, api_key, model_id that is empty or absent
FirstMissing(c) ==
  IF Absent(c.space_key) THEN "space_key"
  ELSE IF Absent(c.api_key) THEN "api_key"
  ELSE "model_id"

\* the processors of provider p that export over the network
IsNetwork(proc) == proc.exporter.cls \in {"GrpcSpanExporter", "HttpSpanExporter"}

\* C1: a call with a bool flag whose endpoint list contains Endpoints.ARIZE
\* and in which space_key, api_key or model_id is empty or absent raises
\* ValueError naming the first missing field, and installs no provider.
C1_ArizeMissingFieldRejected ==
  [][(/\ CallStep
      /\ BoolFlag(call')
      /\ HasEndpoint(call', ARIZE)
      /\ (Absent(call'.space_key) \/ Absent(call'.api_key) \/ Absent(call'.model_id)))
     => /\ outcome' = ValueError("Missing '" \o FirstMissing(call') \o "' to log traces into Arize")
        /\ tracer_provider' = tracer_provider]_vars

\* an Arize call with both keys but an empty model_id was rejected
C1_Witness ==
  /\ ncalls > 0
  /\ BoolFlag(call)
  /\ HasEndpoint(call, ARIZE)
  /\ call.space_key = Str("sk") /\ call.api_key = Str("ak") /\ call.model_id = Str("")
  /\ outcome = ValueError("Missing 'model_id' to log traces into Arize")

\* C2: a call with a bool flag whose endpoint list contains
\* Endpoints.HOSTED_PHOENIX and whose api_key is empty or absent raises
\* ValueError and installs no provider, whatever else the call holds.
C2_HostedPhoenixMissingKeyRejected ==
  [][(/\ CallStep
      /\ BoolFlag(call')
      /\ HasEndpoint(call', HOSTED_PHOENIX)
      /\ Absent(call'.api_key))
     => /\ outcome'.kind = "ValueError"
        /\ tracer_provider' = tracer_provider]_vars

\* a Hosted Phoenix call with an empty api_key, other fields set, was rejected
C2_Witness ==
  /\ ncalls > 0
  /\ BoolFlag(call)
  /\ call.endpoints = List(<<CollectorUrl, HOSTED_PHOENIX>>)
  /\ call.api_key = Str("") /\ call.space_key = Str("sk") /\ call.model_id = Str("m1")
  /\ outcome.kind = "ValueError"

\* C3: a call whose use_batch_processor is not a bool raises TypeError,
\* whatever its endpoints and keys, and touches neither the environment
\* variable nor the registered provider.
C3_NonBoolFlagRejectedFirst ==
  [][(CallStep /\ ~BoolFlag(call'))
     => /\ outcome' = TypeError("use_batch_processor must be of type bool")
        /\ environ' = environ
        /\ tracer_provider' = tracer_provider
        /\ events' = <<>>]_vars

\* the flag 1 with an Arize endpoint and no keys gave the TypeError
C3_Witness ==
  /\ ncalls > 0
  /\ call.use_batch_processor = Int("1")
  /\ HasEndpoint(call, ARIZE)
  /\ Absent(call.space_key) /\ Absent(call.api_key) /\ Absent(call.model_id)
  /\ outcome.kind = "TypeError"

\* C4: a call that raises leaves the environment variable and the
\* registered provider as they were and constructs no object.
C4_FailureHasNoEffect ==
  [][(CallStep /\ outcome'.kind \in {"TypeError", "ValueError"})
     => /\ environ' = environ
        /\ tracer_provider' = tracer_provider
        /\ NothingConstructed(events')]_vars

\* a call was rejected while an earlier call's provider and headers stand
C4_Witness ==
  /\ outcome.kind = "ValueError"
  /\ tracer_provider # NoProvider
  /\ environ.set
  /\ events = <<>>

\* C5 as stated: a call with a bool flag whose endpoints are all plain
\* strings returns normally for every combination of keys.
C5_PlainStringsNeverValidated ==
  (/\ ncalls > 0
   /\ BoolFlag(call)
   /\ \A i \in 1..Len(EndpointList(call)) : EndpointList(call)[i].type = "str")
  => outcome.kind = "returned"

\* C5 (amended): a call with a bool flag none of whose endpoints equals, as a
\* string, the URL of Endpoints.ARIZE or Endpoints.HOSTED_PHOENIX returns
\* normally for every combination of keys.
C5_UnauthenticatedEndpointsAccepted ==
  (/\ ncalls > 0
   /\ BoolFlag(call)
   /\ \A i \in 1..Len(EndpointList(call)) :
        EndpointList(call)[i].val \notin {ARIZE.val, HOSTED_PHOENIX.val})
  => outcome.kind = "returned"

\* a custom URL and the local Phoenix endpoint without any key were accepted
C5_Witness ==
  /\ ncalls > 0
  /\ BoolFlag(call)
  /\ call.endpoints = List(<<CollectorUrl, PHOENIX_LOCAL>>)
  /\ call.api_key = None /\ call.space_key = None /\ call.model_id = None
  /\ outcome.kind = "returned"

\* the key, or the empty string when it is absent
OrEmpty(v) == IF v = None THEN "" ELSE v.val

\* C6: after a successful call with space_key and/or api_key supplied the
\* environment variable is space_key=<space_key>,api_key=<api_key> with the
\* empty string for an absent key; a call with neither key does not write it.
C6_HeadersUseEmptyForAbsent ==
  [][(CallStep /\ outcome'.kind = "returned")
     => IF call'.space_key # None \/ call'.api_key # None
        THEN environ' = EnvSet("space_key=" \o OrEmpty(call'.space_key)
                                 \o ",api_key=" \o OrEmpty(call'.api_key))
        ELSE environ' = environ]_vars

\* position of the only occurrence of event e, 0 if there is none
Position(ev, e) == IF \E i \in 1..Len(ev) : ev[i] = e
                   THEN CHOOSE i \in 1..Len(ev) : ev[i] = e
                   ELSE 0

Count(ev, e) == Cardinality({i \in 1..Len(ev) : ev[i] = e})

\* C7: in a successful call the environment variable is written with the
\* call's keys before any exporter is built, so every network exporter sees
\* this call's value, and the provider is registered after every processor
\* has been attached.
C7_HeadersBeforeExportersRegisterLast ==
  (ncalls > 0 /\ outcome.kind = "returned")
  => /\ environ = EnvSet("space_key=" \o PyFormat(call.space_key)
                           \o ",api_key=" \o PyFormat(call.api_key))
     /\ \A i \in 1..Len(tracer_provider.processors) :
          IsNetwork(tracer_provider.processors[i])
            => tracer_provider.processors[i].exporter.headers_env = environ
     /\ Count(events, "set_auth_keys") = 1
     /\ \A i \in 1..Len(events) :
          events[i] \in Constructors => Position(events, "set_auth_keys") < i
     /\ Count(events, "set_tracer_provider") = 1
     /\ events[Len(events)] = "set_tracer_provider"
     /\ Count(events, "add_span_processor") = Len(tracer_provider.processors)

\* a later successful call with two network exporters and a console mirror,
\* whose keys differ from those of every earlier call
C7_Witness ==
  /\ outcome.kind = "returned"
  /\ tracer_provider.id >= 2
  /\ Len(tracer_provider.processors) = 3
  /\ environ = EnvSet("space_key=,api_key=ak")
  /\ tracer_provider.processors[2].exporter.headers_env = environ

\* C8 as stated: the exporter of an endpoint is the HTTP one exactly when the
\* endpoint is the member Endpoints.HOSTED_PHOENIX; every plain string gets
\* the gRPC one; the exporter is bound to the member's value or the string.
C8_HttpOnlyForEnumMember ==
  (ncalls > 0 /\ outcome.kind = "returned")
  => \A i \in 1..Len(EndpointList(call)) :
       /\ tracer_provider.processors[i].exporter.cls =
            (IF EndpointList(call)[i] = HOSTED_PHOENIX
             THEN "HttpSpanExporter" ELSE "GrpcSpanExporter")
       /\ tracer_provider.processors[i].exporter.endpoint = EndpointList(call)[i].val

\* C8 (amended): the exporter of an endpoint is the HTTP one exactly when the
\* endpoint equals, as a string, the URL of Endpoints.HOSTED_PHOENIX (the
\* member or a plain string of that text); every other endpoint gets the gRPC
\* one; the exporter is bound to the member's value or the unchanged string.
C8_HttpForHostedPhoenixUrl ==
  (ncalls > 0 /\ outcome.kind = "returned")
  => \A i \in 1..Len(EndpointList(call)) :
       /\ tracer_provider.processors[i].exporter.cls =
            (IF EndpointList(call)[i].val = "https://app.phoenix.arize.com/v1/traces"
             THEN "HttpSpanExporter" ELSE "GrpcSpanExporter")
       /\ tracer_provider.processors[i].exporter.endpoint = EndpointList(call)[i].val

\* the plain string of the Hosted Phoenix URL got HTTP, the Arize member gRPC
C8_Witness ==
  /\ outcome.kind = "returned"
  /\ call.endpoints = List(<<HostedPhoenixUrl, ARIZE>>)
  /\ tracer_provider.processors[1].exporter =
       OTLPSpanExporter("HttpSpanExporter", "https://app.phoenix.arize.com/v1/traces", environ)
  /\ tracer_provider.processors[2].exporter.cls = "GrpcSpanExporter"

\* C9: after a successful call with endpoint list E the registered provider
\* has Len(E) network processors, the i-th bound to the i-th endpoint,
\* duplicates kept, then one console processor iff log_to_console; all of
\* them are batch processors if use_batch_processor, else simple ones.
C9_OneProcessorPerEndpoint ==
  (ncalls > 0 /\ outcome.kind = "returned")
  => LET E == EndpointList(call)
         P == tracer_provider.processors
         kind == IF call.use_batch_processor = True
                 THEN "BatchSpanProcessor" ELSE "SimpleSpanProcessor"
     IN /\ Len(P) = Len(E) + (IF call.log_to_console = True THEN 1 ELSE 0)
        /\ \A i \in 1..Len(E) : IsNetwork(P[i]) /\ P[i].exporter.endpoint = E[i].val
        /\ call.log_to_console = True => P[Len(P)].exporter = ConsoleSpanExporter
        /\ \A i \in 1..Len(P) : P[i].cls = kind

\* a duplicated endpoint with console mirror and batching gave three
\* batch processors
C9_Witness ==
  /\ outcome.kind = "returned"
  /\ call.endpoints = List(<<CollectorUrl, CollectorUrl>>)
  /\ call.log_to_console = True /\ call.use_batch_processor = True
  /\ Len(tracer_provider.processors) = 3
  /\ tracer_provider.processors[1] = tracer_provider.processors[2]
  /\ tracer_provider.processors[3].cls = "BatchSpanProcessor"

\* the resource attributes of configuration c
ResourceOf(c) ==
  {Attr("model_id", c.model_id.val) : x \in {c.model_id} \ {None, Str("")}}
    \cup {Attr("model_version", c.model_version.val) : x \in {c.model_version} \ {None, Str("")}}
    \cup {Attr(PROJECT_NAME, c.project_name.val) : x \in {c.project_name} \ {None, Str("")}}

====
